---- MODULE Spec2Model ----
(***************************************************************************)
(* Model of the space-weather ETL scripts under src/etl.                   *)
(*                                                                         *)
(* Part I  - the idempotent sink: SupabaseREST.upsert                      *)
(*           (ingest_swarm_test.py) and upsert_dataframe                   *)
(*           (backfill_solar_wind.py), together with the keyed store they  *)
(*           write to (PostgREST "resolution=merge-duplicates").           *)
(* Part II - the fusion pipeline: fetch_solar_wind_merged                  *)
(*           (fetch_solar_wind.py), fetch_omni_range (fetch_omni.py) and   *)
(*           the dB/dt column of fetch_swarm_l1b (ingest_swarm_test.py).  *)
(***************************************************************************)
EXTENDS Integers, Sequences, FiniteSets, TLC

(***************************************************************************)
(* Bounds of the model.                                                    *)
(***************************************************************************)
\* longest batch handed to an upsert
MaxLen == 3
\* most rows the store holds before the first run
MaxStore == 1
\* resolution of a timestamp below one second (ticks per second)
TicksPerSecond == 2

\* timestamps (in ticks) and payload values a record of a batch can carry
Times == {1, 2}
Vals == {1, 2}
\* value of the rows the store holds before the first run
OldVals == {0}
\* chunk sizes the callers may pass (batch_size / chunk; default 1000)
BatchSizes == {1, 2}
\* HTTP statuses the destination may answer with
Statuses == {200, 299, 300, 499, 500, 503}

Min(a, b) == IF a <= b THEN a ELSE b

(***************************************************************************)
(* State of the sink.                                                      *)
(***************************************************************************)
VARIABLES
    sink,        \* "rest": SupabaseREST.upsert, "df": upsert_dataframe
    records,     \* the batch: a sequence of [ts, val]
    batch_size,  \* batch_size (rest) / chunk (df)
    store,       \* the destination table: a set of rows [key, val]
    i,           \* loop variable of `for i in range(0, len(records), batch_size)`
    attempt,     \* loop variable of `for attempt in range(6)`
    pc,          \* "call", "post", "sent", "raised", "returned"
    resp,        \* what the last POST came back with
    error,       \* the exception the upsert raised, [kind |-> "none"] if none
    posts,       \* POSTs made for the chunk at i
    fails,       \* transient failures seen for the chunk at i
    slept,       \* arguments of the time.sleep calls made for the chunk at i
    run,         \* 1: first upsert of the batch, 2: the same batch resent
    store0,      \* the store when the current run was called
    store1       \* the store when run 1 returned

sinkVars == <<sink, records, batch_size, store, i, attempt, pc, resp, error,
              posts, fails, slept, run, store0, store1>>

(***************************************************************************)
(* State of the pipeline.                                                  *)
(***************************************************************************)
VARIABLES
    prog,        \* "swpc": fetch_solar_wind_merged, "omni": fetch_omni_range,
                 \* "swarm": fetch_swarm_l1b, "none": no pipeline runs
    start,       \* start of the requested range (ticks)
    end_,        \* end of the requested range (ticks)
    feed,        \* what the sources serve: [plasma, mag] (swpc), [data] (omni)
    window,      \* the feed granularity picked for the span
    fetched,     \* the feeds fetched so far
    plasma,      \* the plasma frame: time -> row
    mag,         \* the mag frame: time -> row
    merged,      \* merged (swpc) / df (omni): time -> row
    resampled,   \* the frame as resample(...).mean() left it, before ffill
    result,      \* the frame returned
    out,         \* out of fetch_swarm_l1b: a sequence of rows
    stage,       \* "call", "fetch", "derive", "resample", "ffill", "clip",
                 \* "done", "raised"; "idle" when no pipeline runs
    perr         \* the ValueError raised, "" if none

pipeVars == <<prog, start, end_, feed, window, fetched, plasma, mag, merged,
              resampled, result, out, stage, perr>>

vars == <<sinkVars, pipeVars>>

\* destination of the upsert: pg.upsert("swarm_l1b", ...) and
\* upsert_dataframe("solar_wind_minute", ...)
Table(s) == IF s = "rest" THEN "swarm_l1b" ELSE "solar_wind_minute"

NoResp == [kind |-> "none", status |-> 0]
NoError == [kind |-> "none"]

(***************************************************************************)
(* The payload.                                                            *)
(***************************************************************************)
\* payload.index.strftime("%Y-%m-%dT%H:%M:%SZ"): second precision
Strftime(t) == t \div TicksPerSecond

\* json.dumps(chunk, default=str): str() of a timestamp keeps every digit
JsonStr(t) == t

\* the value of the on_conflict column of a record as it is sent
ConflictKey(s, rec) == IF s = "df" THEN Strftime(rec.ts) ELSE JsonStr(rec.ts)

\* the records as sent: the conflict column and the other columns
Payload(s, recs) ==
    [k \in 1..Len(recs) |-> [key |-> ConflictKey(s, recs[k]), val |-> recs[k].val]]

\* records[i:i+batch_size+1]
ChunkOneMore(rows, at, size) == SubSeq(rows, at + 1, Min(at + size + 1, Len(rows)))

\* records[i:i+batch_size]
Chunk(rows, at, size) == SubSeq(rows, at + 1, Min(at + size, Len(rows)))

(***************************************************************************)
(* The store: on_conflict=<key> with Prefer: resolution=merge-duplicates.  *)
(***************************************************************************)
\* a plain insert, with no conflict resolution
InsertRow(st, row) == st \cup {row}

\* one row: inserted when its key is absent, overwriting when present
UpsertRow(st, row) == {x \in st : x.key # row.key} \cup {row}

RECURSIVE MergeDuplicates(_, _)
\* one POST: the rows of the chunk, in order, in one transaction
MergeDuplicates(st, rows) ==
    IF rows = <<>> THEN st
    ELSE MergeDuplicates(UpsertRow(st, Head(rows)), Tail(rows))

(***************************************************************************)
(* Retry policy of SupabaseREST.upsert.                                    *)
(***************************************************************************)
\* for attempt in range(6)
Attempts == 6

\* if attempt == 5: raise
LastAttempt(a) == a = 5

\* time.sleep(attempt + 1)
BackoffLinear(a) == a + 1

\* time.sleep(2 ** attempt)
Backoff(a) == 2 ^ a

\* r.status_code == 503
TransientOnly503(status) == status = 503

\* r.status_code >= 500 or r.status_code == 503
Transient(status) == status >= 500 \/ status = 503

\* r.status_code >= 400
RejectedFrom400(status) == status >= 400

\* r.status_code >= 300
Rejected(status) == status >= 300

(***************************************************************************)
(* Initial states: any batch, any chunk size, any store (keys unique).     *)
(***************************************************************************)
Record == [ts : Times, val : Vals]

Batches == UNION {[1..n -> Record] : n \in 0..MaxLen}

StoreKeys(s) == {ConflictKey(s, rec) : rec \in Record}

Stores(s) ==
    {st \in SUBSET [key : StoreKeys(s), val : OldVals] :
        /\ Cardinality(st) <= MaxStore
        /\ \A x, y \in st : x.key = y.key => x = y}

InitSink ==
    /\ sink \in {"rest", "df"}
    /\ records \in Batches
    /\ batch_size \in BatchSizes
    /\ store \in Stores(sink)
    /\ i = 0
    /\ attempt = 0
    /\ pc = "call"
    /\ resp = NoResp
    /\ error = NoError
    /\ posts = 0
    /\ fails = 0
    /\ slept = <<>>
    /\ run = 1
    /\ store0 = store
    /\ store1 = {}

\* no upsert is called
SinkIdle ==
    /\ sink = "rest"
    /\ records = <<>>
    /\ batch_size = 1
    /\ store = {}
    /\ i = 0
    /\ attempt = 0
    /\ pc = "idle"
    /\ resp = NoResp
    /\ error = NoError
    /\ posts = 0
    /\ fails = 0
    /\ slept = <<>>
    /\ run = 1
    /\ store0 = {}
    /\ store1 = {}

\* no pipeline runs
PipeIdle ==
    /\ prog = "none"
    /\ start = 0
    /\ end_ = 0
    /\ feed = <<>>
    /\ window = ""
    /\ fetched = {}
    /\ plasma = <<>>
    /\ mag = <<>>
    /\ merged = <<>>
    /\ resampled = <<>>
    /\ result = <<>>
    /\ out = <<>>
    /\ stage = "idle"
    /\ perr = ""

(***************************************************************************)
(* SupabaseREST.upsert                                                     *)
(***************************************************************************)
\* if not records: print "nothing to upsert"; return
UpsertNothing ==
    /\ pc = "call" /\ sink = "rest"
    /\ records = <<>>
    /\ pc' = "returned"
    /\ UNCHANGED <<sink, records, batch_size, store, i, attempt, resp, error,
                   posts, fails, slept, run, store0, store1>>
    /\ UNCHANGED pipeVars

\* self._warm_table(table) (best effort, no effect); first chunk, first attempt
UpsertBegin ==
    /\ pc = "call" /\ sink = "rest"
    /\ records # <<>>
    /\ i' = 0
    /\ attempt' = 0
    /\ pc' = "post"
    /\ UNCHANGED <<sink, records, batch_size, store, resp, error,
                   posts, fails, slept, run, store0, store1>>
    /\ UNCHANGED pipeVars

\* the POST raised requests.RequestException; the request may or may not
\* have reached the destination before the exception (e.g. a read timeout)
PostException ==
    /\ pc = "post" /\ sink = "rest"
    /\ attempt < Attempts
    /\ posts' = posts + 1
    /\ resp' = [kind |-> "exc", status |-> 0]
    /\ \E arrived \in BOOLEAN :
        store' = IF arrived
                 THEN MergeDuplicates(store, Chunk(Payload(sink, records), i, batch_size))
                 ELSE store
    /\ fails' = fails + 1
    /\ IF LastAttempt(attempt)
       THEN /\ pc' = "raised"
            /\ error' = [kind |-> "RuntimeError", table |-> Table(sink),
                         what |-> "request error"]
            /\ UNCHANGED <<attempt, slept>>
       ELSE /\ slept' = Append(slept, Backoff(attempt))
            /\ attempt' = attempt + 1
            /\ UNCHANGED <<pc, error>>
    /\ UNCHANGED <<sink, records, batch_size, i, run, store0, store1>>
    /\ UNCHANGED pipeVars

\* the POST came back with an HTTP status
PostResponse ==
    /\ pc = "post" /\ sink = "rest"
    /\ attempt < Attempts
    /\ posts' = posts + 1
    /\ \E status \in Statuses :
        /\ resp' = [kind |-> "http", status |-> status]
        /\ IF Transient(status)
           THEN /\ fails' = fails + 1
                /\ UNCHANGED store
                /\ IF LastAttempt(attempt)
                   THEN /\ pc' = "raised"
                        /\ error' = [kind |-> "RuntimeError", table |-> Table(sink),
                                     what |-> "failed", status |-> status]
                        /\ UNCHANGED <<attempt, slept>>
                   ELSE /\ slept' = Append(slept, Backoff(attempt))
                        /\ attempt' = attempt + 1
                        /\ UNCHANGED <<pc, error>>
           ELSE IF Rejected(status)
           THEN /\ pc' = "raised"
                /\ error' = [kind |-> "RuntimeError", table |-> Table(sink),
                             what |-> "failed", status |-> status]
                /\ UNCHANGED <<store, attempt, fails, slept>>
           ELSE \* print "upserted n rows"; break
                /\ store' = MergeDuplicates(store,
                                Chunk(Payload(sink, records), i, batch_size))
                /\ pc' = "sent"
                /\ UNCHANGED <<error, attempt, fails, slept>>
    /\ UNCHANGED <<sink, records, batch_size, i, run, store0, store1>>
    /\ UNCHANGED pipeVars

\* the next i of range(0, len(records), batch_size), or the end of the loop
NextChunk ==
    /\ pc = "sent"
    /\ IF i + batch_size < Len(records)
       THEN /\ i' = i + batch_size
            /\ attempt' = 0
            /\ posts' = 0
            /\ fails' = 0
            /\ slept' = <<>>
            /\ resp' = NoResp
            /\ pc' = "post"
       ELSE /\ pc' = "returned"
            /\ UNCHANGED <<i, attempt, posts, fails, slept, resp>>
    /\ UNCHANGED <<sink, records, batch_size, store, error, run, store0, store1>>
    /\ UNCHANGED pipeVars

(***************************************************************************)
(* upsert_dataframe                                                        *)
(***************************************************************************)
\* records built from the frame; range(0, len(records), chunk) is empty or not
DfBegin ==
    /\ pc = "call" /\ sink = "df"
    /\ i' = 0
    /\ pc' = IF Len(records) > 0 THEN "post" ELSE "returned"
    /\ UNCHANGED <<sink, records, batch_size, store, attempt, resp, error,
                   posts, fails, slept, run, store0, store1>>
    /\ UNCHANGED pipeVars

\* sb.table(table).upsert(records[i:i+chunk], on_conflict="time").execute()
\* returns, or raises the client's error, which nothing catches
DfExecute ==
    /\ pc = "post" /\ sink = "df"
    /\ posts' = posts + 1
    /\ \E status \in Statuses :
        /\ resp' = [kind |-> "http", status |-> status]
        /\ IF Rejected(status)
           THEN /\ pc' = "raised"
                /\ error' = [kind |-> "APIError", status |-> status]
                /\ UNCHANGED store
           ELSE /\ store' = MergeDuplicates(store,
                                Chunk(Payload(sink, records), i, batch_size))
                /\ pc' = "sent"
                /\ UNCHANGED error
    /\ UNCHANGED <<sink, records, batch_size, i, attempt, fails, slept,
                   run, store0, store1>>
    /\ UNCHANGED pipeVars

(***************************************************************************)
(* The caller resends the identical batch after a run that returned.       *)
(***************************************************************************)
Resend ==
    /\ pc = "returned" /\ run = 1
    /\ run' = 2
    /\ store1' = store
    /\ store0' = store
    /\ pc' = "call"
    /\ i' = 0
    /\ attempt' = 0
    /\ posts' = 0
    /\ fails' = 0
    /\ slept' = <<>>
    /\ resp' = NoResp
    /\ UNCHANGED <<sink, records, batch_size, store, error>>
    /\ UNCHANGED pipeVars

NextSink ==
    \/ UpsertNothing
    \/ UpsertBegin
    \/ PostException
    \/ PostResponse
    \/ NextChunk
    \/ DfBegin
    \/ DfExecute
    \/ Resend

Init == InitSink /\ PipeIdle

Next == NextSink

Spec == Init /\ [][Next]_vars

(***************************************************************************)
(* Claims about the sink.                                                  *)
(***************************************************************************)
\* the rows as sent by the current run
Sent == Payload(sink, records)

\* what a store st must hold once the rows have been upserted: the rows of
\* st whose key is not among them, and for each key the last row carrying it
Expected(st, rows) ==
    {x \in st : \A k \in 1..Len(rows) : rows[k].key # x.key}
    \cup {rows[k] : k \in {k \in 1..Len(rows) :
                              \A j \in (k + 1)..Len(rows) : rows[j].key # rows[k].key}}

\* the last POST failed transiently: a request exception or a status >= 500
TransientResp == resp.kind = "exc" \/ (resp.kind = "http" /\ resp.status >= 500)

\* the last POST was answered with a status in 300..499
RejectedResp == resp.kind = "http" /\ resp.status >= 300 /\ resp.status <= 499

\* C1: an upsert that returned has inserted every absent key and overwritten
\* every present one with the last record carrying it; the identical batch
\* upserted again leaves the store as the first upsert left it; no key is
\* ever stored twice.
C1_IdempotentUpsert ==
    /\ \A x, y \in store : x.key = y.key => x = y
    /\ pc = "returned" => store = Expected(store0, Sent)
    /\ (run = 2 /\ pc = "returned") => store = store1

C1_Witness ==
    /\ run = 2 /\ pc = "returned" /\ posts > 0
    /\ Len(records) = 3
    /\ Cardinality(store) = 2
    /\ store0 # {}
    /\ \E j, k \in 1..Len(Sent) : j < k /\ Sent[j].key = Sent[k].key /\ Sent[j].val # Sent[k].val

\* C2: after k < 6 transient failures in a row the chunk is sent again and
\* nothing is raised; when the next send succeeds the chunk has been sent
\* exactly k + 1 times, each of its keys is stored exactly once, with the
\* chunk's last value for it, and the upsert moves on.
C2_RetryThenSuccess ==
    sink = "rest" =>
        /\ (TransientResp /\ posts < 6) =>
               (pc = "post" /\ fails = posts /\ error = NoError)
        /\ pc = "sent" =>
               /\ fails < 6
               /\ posts = fails + 1
               /\ error = NoError
               /\ LET rows == SubSeq(Sent, i + 1, Min(i + batch_size, Len(Sent)))
                  IN  \A k \in 1..Len(rows) :
                          /\ Cardinality({x \in store : x.key = rows[k].key}) = 1
                          /\ \E x \in Expected({}, rows) : x.key = rows[k].key /\ x \in store
               /\ ENABLED NextChunk

C2_Witness ==
    /\ sink = "rest" /\ pc = "sent"
    /\ fails = 2 /\ posts = 3
    /\ i > 0

\* C3: a chunk is sent at most 6 times; the n-th transient failure
\* (n = 1..5) is followed by a sleep of 2^(n-1) seconds; a transient failure
\* of the 6th send raises; once raised nothing more is sent, and a chunk
\* that succeeded is not sent again.
C3_BoundedBackoff ==
    sink = "rest" =>
        /\ posts <= 6
        /\ slept = [n \in 1..Min(fails, 5) |-> 2 ^ (n - 1)]
        /\ (TransientResp /\ posts = 6) => (pc = "raised" /\ error # NoError)
        /\ pc = "raised" => ~ ENABLED Next
        /\ pc = "sent" => ~ ENABLED (PostException \/ PostResponse)

C3_Witness ==
    /\ sink = "rest" /\ pc = "raised"
    /\ posts = 6 /\ fails = 6
    /\ slept = <<1, 2, 4, 8, 16>>
    /\ i > 0

\* C4: a response with a status in 300..499 raises at once, whatever the
\* attempt: it is not counted as a transient failure, no sleep follows it and
\* nothing more is sent.
C4_NoRetryOnRejection ==
    (sink = "rest" /\ RejectedResp) =>
        /\ pc = "raised"
        /\ error # NoError /\ error.status = resp.status
        /\ posts = fails + 1
        /\ Len(slept) = fails
        /\ ~ ENABLED Next

C4_Witness ==
    /\ sink = "rest" /\ pc = "raised"
    /\ resp.kind = "http" /\ resp.status = 300
    /\ attempt = 2 /\ posts = 3
    /\ i + batch_size < Len(records)

\* C5: an upsert that raised reports the destination and the number of rows
\* committed by the chunks before the failing one.
C5_EscalationReport ==
    pc = "raised" =>
        /\ "table" \in DOMAIN error /\ error.table = Table(sink)
        /\ "committed_rows" \in DOMAIN error /\ error.committed_rows = i

\* C6: at every point of an upsert, also after it raised, the store is the
\* store of the call with whole chunks upserted in batch order: every chunk
\* before the one being sent, and that one wholly or not at all.
C6_WholeChunksInOrder ==
    /\ i % batch_size = 0
    /\ pc = "post" => i < Len(Sent)
    /\ \E n \in {i, Min(i + batch_size, Len(Sent))} :
           /\ store = Expected(store0, SubSeq(Sent, 1, n))
           /\ pc \in {"sent", "returned"} => n = Min(i + batch_size, Len(Sent))
           /\ (pc = "call" \/ posts = 0) => n = i

C6_Witness ==
    /\ pc = "raised"
    /\ Len(records) = 3 /\ batch_size = 2 /\ i = 2
    /\ store # store0
    /\ store = Expected(store0, SubSeq(Sent, 1, 2))
    /\ store # Expected(store0, Sent)

(***************************************************************************)
(* Part II - the fusion pipeline.                                          *)
(*                                                                         *)
(* Time is counted in ticks of 30 seconds.  A cell of a frame is Null      *)
(* (NaN / pd.NA / None) or Num(x) for a number x.  A frame is a function   *)
(* from its index (a set of times) to rows; a row maps column names to     *)
(* cells.                                                                  *)
(***************************************************************************)
\* ticks in one bucket of resample="1min"
Cadence == 2

TicksPerHour == 60 * Cadence

\* ffill_limit: int = 5, .ffill(limit=5)
FfillLimit == 5

\* diff(60): the lag of the dB/dt column, in rows; also the divisor / 60.0
Lag == 60

Null == <<>>
Num(x) == <<x>>
IsNull(c) == c = Null
Val(c) == c[1]

Max(a, b) == IF a >= b THEN a ELSE b
Abs(a) == IF a < 0 THEN 0 - a ELSE a

RECURSIVE SetMin(_)
SetMin(S) == LET x == CHOOSE x \in S : TRUE
             IN  IF S = {x} THEN x ELSE Min(x, SetMin(S \ {x}))

RECURSIVE SetMax(_)
SetMax(S) == LET x == CHOOSE x \in S : TRUE
             IN  IF S = {x} THEN x ELSE Max(x, SetMax(S \ {x}))

EmptyFrame == <<>>

(***************************************************************************)
(* _pick_window and the range checks of fetch_solar_wind_merged.           *)
(***************************************************************************)
\* h < 2, h < 6, h < 72
PickWindowStrict(delta) ==
    IF delta < 2 * TicksPerHour THEN "2h"
    ELSE IF delta < 6 * TicksPerHour THEN "6h"
    ELSE IF delta < 72 * TicksPerHour THEN "3d"
    ELSE "7d"

\* h = delta.total_seconds()/3600.0; h <= 2, h <= 6, h <= 72, else "7d"
PickWindow(delta) ==
    IF delta <= 2 * TicksPerHour THEN "2h"
    ELSE IF delta <= 6 * TicksPerHour THEN "6h"
    ELSE IF delta <= 72 * TicksPerHour THEN "3d"
    ELSE "7d"

\* dt.timedelta(days=7)
SevenDays == 7 * 24 * TicksPerHour

(***************************************************************************)
(* _compute_derived / the derived fields of _to_df.                        *)
(***************************************************************************)
InputCols == {"density", "speed", "by_gsm", "bz_gsm", "bt"}
DerivedCols == {"pdyn_npa", "bz_south", "vbz", "clock_angle_rad", "newell_proxy"}
Columns == InputCols \cup DerivedCols

\* 1.6726e-6 * density * speed ** 2, in units of 1.6726e-6 nPa; NaN propagates
Pdyn(n, v) ==
    IF IsNull(n) \/ IsNull(v) THEN Null ELSE Num(Val(n) * Val(v) * Val(v))

\* bz.where(bz < 0, 0): the cell is kept where bz < 0 holds and is 0 where
\* it does not; NaN < 0 does not hold
BzSouth(bz) == IF (~ IsNull(bz)) /\ Val(bz) < 0 THEN bz ELSE Num(0)

\* speed * bz; NaN propagates
Vbz(v, bz) == IF IsNull(v) \/ IsNull(bz) THEN Null ELSE Num(Val(v) * Val(bz))

\* math.atan2(y, x) in units of pi/8, for y and x on the axes or diagonals
Atan2(y, x) ==
    IF y = 0 THEN (IF x >= 0 THEN 0 ELSE 8)
    ELSE IF x = 0 THEN (IF y > 0 THEN 4 ELSE 0 - 4)
    ELSE IF y > 0 THEN (IF x > 0 THEN 2 ELSE 6)
    ELSE (IF x > 0 THEN 0 - 2 ELSE 0 - 6)

\* clock_angle_rad: pd.NA, and atan2(by, bz) where by and bz are both there
ClockAngle(by, bz) ==
    IF IsNull(by) \/ IsNull(bz) THEN Null ELSE Num(Atan2(Val(by), Val(bz)))

\* x ** (4/3) for x a cube
Pow43(x) == CASE x = 0 -> 0 [] x = 1 -> 1 [] x = 8 -> 16 [] x = 27 -> 81

\* x ** (2/3) for x a cube
Pow23(x) == CASE x = 0 -> 0 [] x = 1 -> 1 [] x = 8 -> 4 [] x = 27 -> 9

\* math.sin(theta/2) ** (8/3) for theta = 0 and theta = pi (8 units of pi/8)
SinHalfPow83(theta) == CASE theta = 0 -> 0 [] theta = 8 -> 1

\* _newell(v, bt, theta)
Newell(v, bt, theta) ==
    IF IsNull(v) \/ IsNull(bt) \/ IsNull(theta) THEN Null
    ELSE Num(Pow43(Max(Val(v), 0)) * Pow23(Max(Val(bt), 0))
             * SinHalfPow83(Abs(Val(theta))))

\* the row with its derived columns
DerivedRow(r) ==
    LET theta == ClockAngle(r.by_gsm, r.bz_gsm)
    IN  [density |-> r.density, speed |-> r.speed, by_gsm |-> r.by_gsm,
         bz_gsm |-> r.bz_gsm, bt |-> r.bt,
         pdyn_npa |-> Pdyn(r.density, r.speed),
         bz_south |-> BzSouth(r.bz_gsm),
         vbz |-> Vbz(r.speed, r.bz_gsm),
         clock_angle_rad |-> theta,
         newell_proxy |-> Newell(r.speed, r.bt, theta)]

\* plasma.join(mag, how="outer").sort_index(): a row per time of either
\* frame, Null in the columns of the frame that has no row at that time
OuterJoin(pl, mg) ==
    [t \in DOMAIN pl \cup DOMAIN mg |->
        [density |-> IF t \in DOMAIN pl THEN pl[t].density ELSE Null,
         speed   |-> IF t \in DOMAIN pl THEN pl[t].speed ELSE Null,
         by_gsm  |-> IF t \in DOMAIN mg THEN mg[t].by_gsm ELSE Null,
         bz_gsm  |-> IF t \in DOMAIN mg THEN mg[t].bz_gsm ELSE Null,
         bt      |-> IF t \in DOMAIN mg THEN mg[t].bt ELSE Null]]

\* _compute_derived(plasma, mag)
ComputeDerived(pl, mg) ==
    LET df == OuterJoin(pl, mg) IN [t \in DOMAIN df |-> DerivedRow(df[t])]

\* the derived fields of _to_df: the same formulas over the OMNI columns
ToDf(data) == [t \in DOMAIN data |-> DerivedRow(data[t])]

(***************************************************************************)
(* resample(...).mean(numeric_only=True), ffill(limit=...), the clips.     *)
(***************************************************************************)
\* the bucket a time falls into
Bucket(t) == t - (t % Cadence)

\* the index after resampling: every bucket from the first to the last
Buckets(frame) ==
    IF DOMAIN frame = {} THEN {}
    ELSE {b \in Bucket(SetMin(DOMAIN frame))..Bucket(SetMax(DOMAIN frame)) :
             b % Cadence = 0}

RECURSIVE SumCells(_, _, _)
SumCells(frame, ts, c) ==
    IF ts = {} THEN 0
    ELSE LET t == CHOOSE t \in ts : TRUE
         IN  Val(frame[t][c]) + SumCells(frame, ts \ {t}, c)

\* the mean of the non-null cells of column c in bucket b, Null if none
Mean(frame, b, c) ==
    LET ts == {t \in DOMAIN frame : Bucket(t) = b /\ ~ IsNull(frame[t][c])}
    IN  IF ts = {} THEN Null
        ELSE Num(SumCells(frame, ts, c) \div Cardinality(ts))

\* merged.resample("1min").mean(numeric_only=True)
Resample(frame) ==
    [b \in Buckets(frame) |-> [c \in Columns |-> Mean(frame, b, c)]]

RECURSIVE PadNoLimit(_, _, _, _)
\* ffill(): every null cell takes the last value
PadNoLimit(cells, last, count, limit) ==
    IF cells = <<>> THEN <<>>
    ELSE IF IsNull(Head(cells))
    THEN <<last>> \o PadNoLimit(Tail(cells), last, count + 1, limit)
    ELSE <<Head(cells)>> \o PadNoLimit(Tail(cells), Head(cells), 0, limit)

RECURSIVE Pad(_, _, _, _)
\* the forward fill of one column: a null cell takes the last value unless
\* `limit` cells in a row have been filled since that value
Pad(cells, last, count, limit) ==
    IF cells = <<>> THEN <<>>
    ELSE IF IsNull(Head(cells))
    THEN IF count >= limit
         THEN <<Head(cells)>> \o Pad(Tail(cells), last, count, limit)
         ELSE <<last>> \o Pad(Tail(cells), last, count + 1, limit)
    ELSE <<Head(cells)>> \o Pad(Tail(cells), Head(cells), 0, limit)

\* merged.ffill(limit=limit), column by column over the resampled index
Ffill(frame, limit) ==
    IF DOMAIN frame = {} THEN frame
    ELSE LET lo == SetMin(DOMAIN frame)
             n == Cardinality(DOMAIN frame)
             col(c) == Pad([k \in 1..n |-> frame[lo + (k - 1) * Cadence][c]],
                           Null, 0, limit)
         IN  [b \in DOMAIN frame |->
                 [c \in Columns |-> col(c)[((b - lo) \div Cadence) + 1]]]

\* the index runs up to, not including, hi
ClipHalfOpen(frame, lo, hi) ==
    [t \in {t \in DOMAIN frame : t >= lo /\ t < hi} |-> frame[t]]

\* plasma.loc[(plasma.index >= start) & (plasma.index <= end)], and mag
ClipInput(frame, lo, hi) ==
    [t \in {t \in DOMAIN frame : t >= lo /\ t <= hi} |-> frame[t]]

\* merged.loc[(merged.index >= start) & (merged.index <= end)]
ClipResult(frame, lo, hi) ==
    [t \in {t \in DOMAIN frame : t >= lo /\ t <= hi} |-> frame[t]]

(***************************************************************************)
(* The dB/dt column of fetch_swarm_l1b.                                    *)
(***************************************************************************)
\* the square root of a square
Sqrt(n) == CHOOSE r \in 0..n : r * r = n

\* out.groupby("sat_id")[col].diff(60) at row k: the cell minus the cell 60
\* rows up in the same group (out is sorted by sat_id, ts), Null if there is
\* no such row or one of the two cells is null
GroupDiff(rows, k, c) ==
    IF k - Lag < 1 THEN Null
    ELSE IF rows[k - Lag].sat_id # rows[k].sat_id THEN Null
    ELSE IF IsNull(rows[k][c]) \/ IsNull(rows[k - Lag][c]) THEN Null
    ELSE Num(Val(rows[k][c]) - Val(rows[k - Lag][c]))

\* one term of (diff**2).sum(axis=1): sum skips the null cells
SquareSkipNa(c) == IF IsNull(c) THEN 0 ELSE Val(c) * Val(c)

\* np.sqrt((diff**2).sum(axis=1)) / 60.0
Dbdt(rows, k) ==
    Num(Sqrt(SquareSkipNa(GroupDiff(rows, k, "bn_ut"))
             + SquareSkipNa(GroupDiff(rows, k, "be_ut"))
             + SquareSkipNa(GroupDiff(rows, k, "bd_ut"))) \div Lag)

\* out["dbdt_utps"] = ...
WithDbdt(rows) ==
    [k \in 1..Len(rows) |->
        [sat_id |-> rows[k].sat_id, bn_ut |-> rows[k].bn_ut,
         be_ut |-> rows[k].be_ut, bd_ut |-> rows[k].bd_ut,
         dbdt_utps |-> Dbdt(rows, k)]]

(***************************************************************************)
(* Inputs of the pipeline.                                                 *)
(***************************************************************************)
\* most samples one feed holds in the fusion cases
MaxSamples == 2
\* most rows a satellite has beyond the lag of the dB/dt column
MaxExtra == 1

\* a start on a bucket boundary, and the short range used by most cases
Base == 10 * Cadence
ShortSpan == 8 * Cadence

\* spans (end - start) around every threshold of the window selection
Spans ==
    {0 - 1, 0, 1,
     2 * TicksPerHour, 2 * TicksPerHour + 1,
     6 * TicksPerHour, 6 * TicksPerHour + 1,
     50 * TicksPerHour,
     72 * TicksPerHour, 72 * TicksPerHour + 1,
     SevenDays, SevenDays + 1}

\* the frames with at most n rows, at times of T, with rows of R
Frames(T, R, n) ==
    UNION {[S -> R] : S \in {S \in SUBSET T : Cardinality(S) <= n}}

PlasmaRows(D, V) == [density : D, speed : V]
MagRows(Y, Z, T) == [by_gsm : Y, bz_gsm : Z, bt : T]

\* the window selection: every span, a feed with a sample at start or none
InitWindow ==
    /\ prog = "swpc"
    /\ start = Base
    /\ end_ \in {start + d : d \in Spans}
    /\ \E pl \in Frames({start}, PlasmaRows({Num(2)}, {Num(8)}), 1),
          mg \in Frames({start}, MagRows({Num(0)}, {Num(0 - 2)}, {Num(8)}), 1) :
          feed = [plasma |-> pl, mag |-> mg]

\* the fusion: starts and ends on and off a bucket boundary, samples before,
\* at and after both, rows with missing cells
InitFusion ==
    /\ prog = "swpc"
    /\ start \in {Base, Base + 1}
    /\ end_ \in {Base + ShortSpan, Base + ShortSpan + 1}
    /\ \E pl \in Frames({start, start + 1, end_},
                        {[density |-> Num(2), speed |-> Num(8)],
                         [density |-> Num(4), speed |-> Null],
                         [density |-> Null, speed |-> Num(8)]}, MaxSamples),
          mg \in Frames({start - 1, start + 1, end_, end_ + 1},
                        {[by_gsm |-> Num(0), bz_gsm |-> Num(0 - 2), bt |-> Num(8)],
                         [by_gsm |-> Null, bz_gsm |-> Num(2), bt |-> Null]},
                        MaxSamples) :
          feed = [plasma |-> pl, mag |-> mg]

\* the derived fields: one sample a feed, every combination of missing cells
InitDerive ==
    /\ prog = "swpc"
    /\ start = Base
    /\ end_ = Base + ShortSpan
    /\ \E pl \in Frames({start, start + 1},
                        PlasmaRows({Null, Num(2)}, {Null, Num(8), Num(0 - 8)}), 1),
          mg \in Frames({start, start + 1},
                        MagRows({Null, Num(0)}, {Null, Num(0 - 2), Num(2)},
                                {Null, Num(8)}), 1) :
          feed = [plasma |-> pl, mag |-> mg]

\* fetch_omni_range: one stream that carries every column
InitOmni ==
    /\ prog = "omni"
    /\ start = Base
    /\ end_ = Base + ShortSpan
    /\ \E data \in Frames({start, start + 1, start + ShortSpan},
                          {[density |-> Num(2), speed |-> Num(8), by_gsm |-> Num(0),
                            bz_gsm |-> Num(0 - 2), bt |-> Num(8)],
                           [density |-> Null, speed |-> Num(8), by_gsm |-> Num(0),
                            bz_gsm |-> Null, bt |-> Num(8)],
                           [density |-> Null, speed |-> Null, by_gsm |-> Null,
                            bz_gsm |-> Null, bt |-> Null]}, MaxSamples) :
          feed = [data |-> data]

\* vectors of a Swarm row (bn_ut, be_ut, bd_ut)
Vectors ==
    {<<Num(0), Num(0), Num(0)>>, <<Num(180), Num(240), Num(0)>>,
     <<Null, Num(240), Num(0)>>, <<Null, Null, Null>>}

SwarmRow(sat, v) == [sat_id |-> sat, bn_ut |-> v[1], be_ut |-> v[2], bd_ut |-> v[3]]

\* n rows of one satellite: the first and the last carry the given vectors,
\* the rows between them the zero vector
SwarmRows(sat, n, first, last) ==
    [k \in 1..n |->
        SwarmRow(sat, IF k = 1 THEN first
                      ELSE IF k = n THEN last
                      ELSE <<Num(0), Num(0), Num(0)>>)]

\* fetch_swarm_l1b: out sorted by sat_id, ts
InitSwarm ==
    /\ prog = "swarm"
    /\ start = Base
    /\ end_ = Base + ShortSpan
    /\ feed = <<>>
    /\ \E nA \in {0, 1} \cup (Lag..(Lag + MaxExtra)), nB \in {0, 2},
          fa \in Vectors, la \in Vectors, fb \in Vectors :
          out = SwarmRows("A", nA, fa, la)
                \o SwarmRows("B", nB, fb, <<Num(0), Num(0), Num(0)>>)

InitPipe ==
    /\ SinkIdle
    /\ window = ""
    /\ fetched = {}
    /\ plasma = EmptyFrame
    /\ mag = EmptyFrame
    /\ merged = EmptyFrame
    /\ resampled = EmptyFrame
    /\ result = EmptyFrame
    /\ stage = "call"
    /\ perr = ""
    /\ \/ InitWindow /\ out = <<>>
       \/ InitFusion /\ out = <<>>
       \/ InitDerive /\ out = <<>>
       \/ InitOmni /\ out = <<>>
       \/ InitSwarm

(***************************************************************************)
(* fetch_solar_wind_merged                                                 *)
(***************************************************************************)
\* the range checks, then window = _pick_window(end - start)
Validate ==
    /\ prog = "swpc" /\ stage = "call"
    /\ IF end_ <= start
       THEN /\ stage' = "raised"
            /\ perr' = "end must be after start"
            /\ UNCHANGED window
       ELSE IF end_ - start > SevenDays
       THEN /\ stage' = "raised"
            /\ perr' = "Range > 7 days; use archive fallback for longer windows."
            /\ UNCHANGED window
       ELSE /\ window' = PickWindow(end_ - start)
            /\ stage' = "fetch"
            /\ UNCHANGED perr
    /\ UNCHANGED <<prog, start, end_, feed, fetched, plasma, mag, merged,
                   resampled, result, out>>
    /\ UNCHANGED sinkVars

\* the two feeds of the window, each clipped to the range
Fetch ==
    /\ prog = "swpc" /\ stage = "fetch"
    /\ fetched' = {<<"plasma", window>>, <<"mag", window>>}
    /\ plasma' = ClipInput(feed.plasma, start, end_)
    /\ mag' = ClipInput(feed.mag, start, end_)
    /\ stage' = "derive"
    /\ UNCHANGED <<prog, start, end_, feed, window, merged, resampled, result,
                   out, perr>>
    /\ UNCHANGED sinkVars

\* merged = _compute_derived(plasma, mag), made numeric
Derive ==
    /\ prog = "swpc" /\ stage = "derive"
    /\ merged' = ComputeDerived(plasma, mag)
    /\ stage' = "resample"
    /\ UNCHANGED <<prog, start, end_, feed, window, fetched, plasma, mag,
                   resampled, result, out, perr>>
    /\ UNCHANGED sinkVars

\* merged = merged.resample(resample).mean(numeric_only=True)
DoResample ==
    /\ prog = "swpc" /\ stage = "resample"
    /\ merged' = Resample(merged)
    /\ resampled' = Resample(merged)
    /\ stage' = "ffill"
    /\ UNCHANGED <<prog, start, end_, feed, window, fetched, plasma, mag,
                   result, out, perr>>
    /\ UNCHANGED sinkVars

\* merged = merged.ffill(limit=ffill_limit)
DoFfill ==
    /\ prog = "swpc" /\ stage = "ffill"
    /\ merged' = Ffill(merged, FfillLimit)
    /\ stage' = "clip"
    /\ UNCHANGED <<prog, start, end_, feed, window, fetched, plasma, mag,
                   resampled, result, out, perr>>
    /\ UNCHANGED sinkVars

\* return merged.loc[(merged.index >= start) & (merged.index <= end)]
Return ==
    /\ prog = "swpc" /\ stage = "clip"
    /\ result' = ClipResult(merged, start, end_)
    /\ stage' = "done"
    /\ UNCHANGED <<prog, start, end_, feed, window, fetched, plasma, mag,
                   merged, resampled, out, perr>>
    /\ UNCHANGED sinkVars

(***************************************************************************)
(* fetch_omni_range                                                        *)
(***************************************************************************)
\* data, meta = hapi(...); df = _to_df(data, meta)
OmniToDf ==
    /\ prog = "omni" /\ stage = "call"
    /\ fetched' = {<<"omni", "OMNI_HRO2_1MIN">>}
    /\ merged' = ToDf(feed.data)
    /\ stage' = "resample"
    /\ UNCHANGED <<prog, start, end_, feed, window, plasma, mag, resampled,
                   result, out, perr>>
    /\ UNCHANGED sinkVars

\* df = df.resample(resample).mean(numeric_only=True).ffill(limit=5); return df
OmniResample ==
    /\ prog = "omni" /\ stage = "resample"
    /\ resampled' = Resample(merged)
    /\ merged' = Ffill(Resample(merged), FfillLimit)
    /\ result' = Ffill(Resample(merged), FfillLimit)
    /\ stage' = "done"
    /\ UNCHANGED <<prog, start, end_, feed, window, fetched, plasma, mag,
                   out, perr>>
    /\ UNCHANGED sinkVars

(***************************************************************************)
(* fetch_swarm_l1b                                                         *)
(***************************************************************************)
\* diff = out.groupby("sat_id")[...].diff(60); out["dbdt_utps"] = ...
SwarmDbdt ==
    /\ prog = "swarm" /\ stage = "call"
    /\ out' = WithDbdt(out)
    /\ stage' = "done"
    /\ UNCHANGED <<prog, start, end_, feed, window, fetched, plasma, mag,
                   merged, resampled, result, perr>>
    /\ UNCHANGED sinkVars

NextPipe ==
    \/ Validate
    \/ Fetch
    \/ Derive
    \/ DoResample
    \/ DoFfill
    \/ Return
    \/ OmniToDf
    \/ OmniResample
    \/ SwarmDbdt

SpecPipe == InitPipe /\ [][NextPipe]_vars

(***************************************************************************)
(* Claims about the pipeline.                                              *)
(***************************************************************************)
\* a row of a frame with derived columns propagates nulls
RowPropagatesNull(r) ==
    /\ (IsNull(r.density) \/ IsNull(r.speed)) => IsNull(r.pdyn_npa)
    /\ IsNull(r.bz_gsm) => IsNull(r.bz_south)
    /\ (IsNull(r.speed) \/ IsNull(r.bz_gsm)) => IsNull(r.vbz)
    /\ (IsNull(r.by_gsm) \/ IsNull(r.bz_gsm)) => IsNull(r.clock_angle_rad)
    /\ (IsNull(r.speed) \/ IsNull(r.bt) \/ IsNull(r.clock_angle_rad))
           => IsNull(r.newell_proxy)

\* row k of out has no vector 60 samples earlier for its satellite, or a
\* component of either vector is missing
DbdtInputMissing(k) ==
    \/ k - Lag < 1
    \/ out[k - Lag].sat_id # out[k].sat_id
    \/ \E c \in {"bn_ut", "be_ut", "bd_ut"} :
           IsNull(out[k][c]) \/ IsNull(out[k - Lag][c])

\* C7: in the frame the derived-feature code leaves, every derived feature
\* whose required input is null in a row is null in that row.
C7_NullPropagation ==
    /\ (prog \in {"swpc", "omni"} /\ stage = "resample") =>
           \A t \in DOMAIN merged : RowPropagatesNull(merged[t])
    /\ (prog = "swarm" /\ stage = "done") =>
           \A k \in 1..Len(out) : DbdtInputMissing(k) => IsNull(out[k].dbdt_utps)

\* the buckets before b where column c of the resampled frame has a value
Known(b, c) == {p \in DOMAIN resampled : p < b /\ ~ IsNull(resampled[p][c])}

\* C8: after the fill a bucket with a value of its own keeps it; an empty
\* bucket takes the column's last value when that value is at most 5
\* buckets back, and stays null when it is further back or there is none.
C8_GapFillBound ==
    (prog \in {"swpc", "omni"} /\ stage \in {"clip", "done"}) =>
        /\ DOMAIN merged = DOMAIN resampled
        /\ \A b \in DOMAIN resampled : \A c \in Columns :
               IF ~ IsNull(resampled[b][c])
               THEN merged[b][c] = resampled[b][c]
               ELSE IF Known(b, c) = {}
               THEN IsNull(merged[b][c])
               ELSE LET p == SetMax(Known(b, c))
                    IN  IF (b - p) \div Cadence <= 5
                        THEN merged[b][c] = resampled[p][c]
                        ELSE IsNull(merged[b][c])

\* a value followed by a run of 7 empty buckets: 5 filled, 2 left null, and
\* a later bucket with its own, different value
C8_Witness ==
    /\ prog = "swpc" /\ stage = "done"
    /\ \E p \in DOMAIN resampled :
           /\ ~ IsNull(resampled[p]["density"])
           /\ \A k \in 1..7 :
                  /\ (p + k * Cadence) \in DOMAIN resampled
                  /\ IsNull(resampled[p + k * Cadence]["density"])
           /\ \A k \in 1..5 : merged[p + k * Cadence]["density"] = resampled[p]["density"]
           /\ IsNull(merged[p + 6 * Cadence]["density"])
           /\ IsNull(merged[p + 7 * Cadence]["density"])
           /\ ~ IsNull(resampled[p + 8 * Cadence]["density"])
           /\ merged[p + 8 * Cadence]["density"] # resampled[p]["density"]

\* C9 as claimed: the returned index lies in [start, end) and holds every
\* bucket of the filled frame in [start, end).
C9_HalfOpenClip ==
    (prog = "swpc" /\ stage = "done") =>
        /\ \A t \in DOMAIN result : start <= t /\ t < end_
        /\ \A b \in DOMAIN merged :
               (start <= b /\ b < end_) => (b \in DOMAIN result /\ result[b] = merged[b])

\* C9 amended: the returned index lies in [start, end], end included, and
\* holds every bucket of the filled frame in [start, end].
C9_ClosedClip ==
    (prog = "swpc" /\ stage = "done") =>
        /\ \A t \in DOMAIN result :
               start <= t /\ t <= end_ /\ t \in DOMAIN merged
        /\ \A b \in DOMAIN merged :
               (start <= b /\ b <= end_) => (b \in DOMAIN result /\ result[b] = merged[b])

\* a bucket before start is dropped and the bucket at end is returned
C9_Witness ==
    /\ prog = "swpc" /\ stage = "done"
    /\ end_ \in DOMAIN result
    /\ \E b \in DOMAIN merged : b < start /\ b \notin DOMAIN result
    /\ Cardinality(DOMAIN result) > 2

\* the ordered buckets and the hours each covers
WindowOrder == <<"2h", "6h", "3d", "7d">>
CoveredHours == <<2, 6, 72, 168>>

\* the smallest bucket whose covered span is at least the span
SmallestCovering(span) ==
    WindowOrder[SetMin({k \in 1..4 : CoveredHours[k] * TicksPerHour >= span})]

\* C10: a range with end <= start or longer than 7 days is rejected before
\* anything is fetched; any other range gets the smallest bucket of 2h,
\* 6h, 3d, 7d that covers its span, and only the feeds of that bucket are
\* fetched.
C10_WindowSelection ==
    prog = "swpc" =>
        /\ stage = "call" => fetched = {}
        /\ stage # "call" =>
               IF end_ <= start \/ end_ - start > 168 * TicksPerHour
               THEN stage = "raised" /\ perr # "" /\ fetched = {} /\ window = ""
               ELSE /\ stage # "raised" /\ perr = ""
                    /\ window = SmallestCovering(end_ - start)
                    /\ \A f \in fetched : f[2] = window

\* 50 hours select 3d, and the feeds fetched are those of 3d
C10_Witness ==
    /\ prog = "swpc" /\ stage = "done"
    /\ end_ - start = 50 * TicksPerHour
    /\ window = "3d"
    /\ fetched = {<<"plasma", "3d">>, <<"mag", "3d">>}

\* a derived column of a record is null exactly when a required input is
DerivedAgrees(r) ==
    /\ IsNull(r.pdyn_npa) <=> (IsNull(r.density) \/ IsNull(r.speed))
    /\ IsNull(r.bz_south) <=> IsNull(r.bz_gsm)
    /\ IsNull(r.vbz) <=> (IsNull(r.speed) \/ IsNull(r.bz_gsm))
    /\ IsNull(r.clock_angle_rad) <=> (IsNull(r.by_gsm) \/ IsNull(r.bz_gsm))
    /\ IsNull(r.newell_proxy)
           <=> (IsNull(r.speed) \/ IsNull(r.bt) \/ IsNull(r.clock_angle_rad))

\* C11: in every record the pipeline returns (after the outer join, the
\* resampling and the bounded forward fill) each derived field is null if
\* and only if one of its required inputs is null in that same record.
C11_DerivedAgreeWithFused ==
    (prog \in {"swpc", "omni"} /\ stage = "done") =>
        \A t \in DOMAIN result : DerivedAgrees(result[t])

\* C11, its particular case alone: a returned record with speed and bz both
\* there has a vbz, one with density and speed both there has a pdyn_npa.
C11_InputsPresentDerivedPresent ==
    (prog \in {"swpc", "omni"} /\ stage = "done") =>
        \A t \in DOMAIN result :
            /\ (~ IsNull(result[t].speed) /\ ~ IsNull(result[t].bz_gsm))
                   => ~ IsNull(result[t].vbz)
            /\ (~ IsNull(result[t].density) /\ ~ IsNull(result[t].speed))
                   => ~ IsNull(result[t].pdyn_npa)

====
